---------------------------- MODULE Spec2Model ----------------------------
(***************************************************************************)
(* TelemetryService (src/terminal/TelemetryService.cpp): the log           *)
(* interceptor, the mutex-protected log buffer, the background flush loop  *)
(* (logSendingThread) and the shutdown flag.                               *)
(*                                                                         *)
(* Threads: the flush loop, the producer threads (which log through the    *)
(* dispatcher callback or call logToAll / logToSentry / logToDatadog       *)
(* directly) and the shutdown triggers (explicit call, signal, exit hook). *)
(* Every action below is one atomic step of one thread.  logMutex is part  *)
(* of the state: a step that needs it waits until no other thread holds    *)
(* it, and the drain block of the flush loop holds it across its steps.    *)
(***************************************************************************)
EXTENDS Integers, Sequences, FiniteSets, Bags, TLC

(***************************************************************************)
(* Bounds of the model.                                                    *)
(***************************************************************************)
MaxRecords == 2
MaxIterations == 2
MaxEvents == 4
MaxConstructions == 3

(***************************************************************************)
(* Program constants.                                                      *)
(***************************************************************************)
HighWaterMark == 1024
LogBufferLimit == 16 * 1024
DumpIntervalMs == 30000
SleepMs == 100
ApplicationName == "Eternal Terminal"
ETVersion == "ET_VERSION"

\* Thread 1 logs through the logging framework, thread 2 calls the service.
LogThreads == {1}
ApiThreads == {2}
Producers == LogThreads \cup ApiThreads
NoThread == 0
Flusher == 3

Levels == {"Info", "Error", "Fatal"}
Loggers == {"default", "stdout"}
DispatchActions == {"NormalLog", "SysLog"}
Environments == {"development"}
TriggerKinds == {"explicit", "signal", "atexit"}
SleepDurations == {SleepMs, DumpIntervalMs + SleepMs}

LogEvents == [level : Levels, logger : Loggers, action : DispatchActions]

(***************************************************************************)
(* Pure functions.                                                         *)
(***************************************************************************)
logLevelToSentry(l) ==
    CASE l = "Info"    -> "SENTRY_LEVEL_INFO"
      [] l = "Warning" -> "SENTRY_LEVEL_WARNING"
      [] l = "Error"   -> "SENTRY_LEVEL_ERROR"
      [] l = "Fatal"   -> "SENTRY_LEVEL_FATAL"
      [] OTHER         -> "SENTRY_LEVEL_DEBUG"

sentryLevelToString(l) ==
    CASE l = "SENTRY_LEVEL_DEBUG"   -> "Debug"
      [] l = "SENTRY_LEVEL_INFO"    -> "Info"
      [] l = "SENTRY_LEVEL_WARNING" -> "Warning"
      [] l = "SENTRY_LEVEL_ERROR"   -> "Error"
      [] l = "SENTRY_LEVEL_FATAL"   -> "Fatal"
      [] OTHER                      -> "Unknown"

\* The three fields logToDatadog writes into the caller's map.
EnrichmentKeys == {"Environment", "Application", "Version"}

\* message["Environment"] = ...; message["Application"] = ...;
\* message["Version"] = ...: the assignments overwrite same-named keys.
Enrich(message, env) ==
    [k \in (DOMAIN message) \cup EnrichmentKeys |->
        CASE k = "Environment" -> env
          [] k = "Application" -> ApplicationName
          [] k = "Version"     -> ETVersion
          [] OTHER             -> message[k]]

(***************************************************************************)
(* Texts.  A std::string is a sequence of bytes; the text of the m-th      *)
(* message starts with the byte m, which tells the messages apart.  A log  *)
(* statement or a caller of logToDatadog supplies any bytes: the text is   *)
(* the byte m alone or the byte m followed by e9 20 ff, which is not UTF-8.*)
(***************************************************************************)
TextTails == {<<>>, <<233, 32, 255>>}
LogTexts(m) == {<<m>> \o tail : tail \in TextTails}
TextId(text) == text[1]

\* The range the byte after the lead byte b must lie in.
SecondByteRange(b) ==
    CASE b = 224 -> 160..191
      [] b = 237 -> 128..159
      [] b = 240 -> 144..191
      [] b = 244 -> 128..143
      [] OTHER   -> 128..191

\* The bytes that follow the lead byte b of a well-formed sequence; -1 for
\* a byte that cannot lead.
Continuations(b) ==
    IF b < 128 THEN 0
    ELSE IF b >= 194 /\ b <= 223 THEN 1
    ELSE IF b >= 224 /\ b <= 239 THEN 2
    ELSE IF b >= 240 /\ b <= 244 THEN 3
    ELSE -1

\* What the serializer's decoder accepts (dump with the strict error handler
\* throws type_error.316 on anything else): well-formed UTF-8.
RECURSIVE Utf8Valid(_)
Utf8Valid(bytes) ==
    IF bytes = <<>> THEN TRUE
    ELSE LET b == Head(bytes)
             n == Continuations(b)
         IN  /\ n >= 0
             /\ Len(bytes) >= n + 1
             /\ n >= 1 => bytes[2] \in SecondByteRange(b)
             /\ \A i \in 3..(n + 1) : bytes[i] \in 128..191
             /\ Utf8Valid(SubSeq(bytes, n + 2, Len(bytes)))

\* The map logToAll builds for logToDatadog.
AllMessage(level, message) ==
    [message |-> message, level |-> sentryLevelToString(level)]

\* std::map iterates its keys in byte order: upper case before lower case.
KeyOrder == <<"Application", "Environment", "Version", "level", "message">>

RECURSIVE ObjectFrom(_, _)
ObjectFrom(rec, i) ==
    IF i > Len(KeyOrder) THEN <<>>
    ELSE IF KeyOrder[i] \in DOMAIN rec
         THEN <<(<<KeyOrder[i], rec[KeyOrder[i]]>>)>> \o ObjectFrom(rec, i + 1)
         ELSE ObjectFrom(rec, i + 1)

(***************************************************************************)
(* The buffer.  logBuffer is a vector of records.  The code never looks at *)
(* a single record of it: it asks for the size, pushes at the back, dumps  *)
(* the whole vector and clears it.  A buffer value is therefore kept as    *)
(* the number of records of an initial burst at its front (burst, zero     *)
(* unless the initial state says otherwise) followed by the records pushed *)
(* since (records); its size is the sum.  A payload keeps the same shape.  *)
(***************************************************************************)
EmptyBuffer == [burst |-> 0, records |-> <<>>]

\* logBuffer.size()
Size(buffer) == buffer.burst + Len(buffer.records)

\* logBuffer.push_back(rec)
PushBack(buffer, rec) == [buffer EXCEPT !.records = Append(@, rec)]

\* The string a fresh `string payload;` holds.
EmptyPayload == [burst |-> 0, objects |-> <<>>]

\* An array in the reverse of buffer order.
DumpReversed(buffer) ==
    [burst |-> buffer.burst,
     objects |-> [i \in 1..Len(buffer.records) |->
                    ObjectFrom(buffer.records[Len(buffer.records) + 1 - i], 1)]]

\* Whether json(logBuffer).dump(4) returns: every string it writes is valid
\* UTF-8.  The keys and the other values of the records are ASCII; the
\* records of the initial burst are taken to be valid.
Dumps(buffer) ==
    \A i \in 1..Len(buffer.records) :
        "message" \in DOMAIN buffer.records[i] =>
            Utf8Valid(buffer.records[i]["message"])

\* json(logBuffer).dump(4): an array, in buffer order, of one object per
\* record, each object listing its key/value pairs in key order.
Dump(buffer) ==
    [burst |-> buffer.burst,
     objects |-> [i \in 1..Len(buffer.records) |->
                    ObjectFrom(buffer.records[i], 1)]]

\* A filter that does not look at the logger.
ForwardedAnyLogger(exists, ev) ==
    /\ exists
    /\ ev.action = "NormalLog"
    /\ ev.level \in {"Fatal", "Error"}

\* The filter of TelemetryDispatcher::handle.
Forwarded(exists, ev) ==
    /\ exists
    /\ ev.action = "NormalLog"
    /\ ev.logger # "stdout"
    /\ ev.level \in {"Fatal", "Error"}

\* A buffer that never counts as full.
BufferNeverFull(buffer) == FALSE

\* if (logBuffer.size() > 16 * 1024) return;
BufferFull(buffer) == Size(buffer) > LogBufferLimit

\* A flush condition without the size trigger.
ShouldFlushTimeOnly(size, deadline, clock) ==
    /\ size # 0
    /\ deadline < clock

\* A flush condition that does not look at the size.
ShouldFlushAlways(size, deadline, clock) == TRUE

\* if (logBufferSize) { if (logBufferSize >= 1024 || nextDumpTime < now)
ShouldFlush(size, deadline, clock) ==
    /\ size # 0
    /\ (size >= HighWaterMark \/ deadline < clock)

\* The system clock: now is the value of its latest read, and a read
\* returns that value or a later one.  ClockReads(reads) is the time a read
\* may add; a place that does not read adds none.
ReadDelays == {0, 1}
ClockReads(reads) == IF reads THEN ReadDelays ELSE {0}

\* Whether the flush test reaches its now(): the size is non-zero and below
\* the high-water mark.
ReadsClock(size) == size # 0 /\ size < HighWaterMark

\* ts->shutdown(): the Running -> ShuttingDown transition.
Shutdown(flag) == TRUE

(***************************************************************************)
(* The identity.  A sole::uuid is a pair of unsigned integers (ab, cd);    *)
(* its str() writes them in lower-case hexadecimal, zero-padded to a fixed *)
(* width and separated by "-", and sole::rebuild reads that text back.     *)
(* The integers are scaled down to one byte each (two digits).  A text is  *)
(* a sequence of characters.                                               *)
(***************************************************************************)
HexDigits == <<"0", "1", "2", "3", "4", "5", "6", "7",
               "8", "9", "a", "b", "c", "d", "e", "f">>

\* The ids sole::uuid4() may draw.
Uuids == {<<1, 171>>, <<16, 10>>, <<255, 0>>}

\* The id of the service that is already running where a specification
\* starts there.
LoadedId == <<16, 10>>

Hex2(n) == <<HexDigits[(n \div 16) + 1], HexDigits[(n % 16) + 1]>>

\* sentryId.str()
UuidStr(u) == Hex2(u[1]) \o <<"-">> \o Hex2(u[2])

HexValue(c) == (CHOOSE i \in 1..16 : HexDigits[i] = c) - 1

RECURSIVE ParseHex(_, _)
ParseHex(text, acc) ==
    IF text = <<>> THEN acc
    ELSE ParseHex(Tail(text), (16 * acc + HexValue(Head(text))) % 256)

\* sole::rebuild(text): the digits before and after the separator.
Rebuild(text) ==
    LET k == CHOOSE i \in 1..Len(text) : text[i] = "-"
    IN  <<ParseHex(SubSeq(text, 1, k - 1), 0),
          ParseHex(SubSeq(text, k + 1, Len(text)), 0)>>

\* telemetry.ini: whether it exists, whether ini.LoadFile accepts it
\* (rc == 0), whether it has a Sentry/Id value, and that value.
NoFile == [exists |-> FALSE, loads |-> FALSE, hasId |-> FALSE, text |-> <<>>]

\* The file ini.SetValue("Sentry", "Id", ...) and ini.SaveFile write.
WrittenFile(u) ==
    [exists |-> TRUE, loads |-> TRUE, hasId |-> TRUE, text |-> UuidStr(u)]

\* A file without a Sentry/Id value, and a file LoadFile rejects.
EmptyFile == [exists |-> TRUE, loads |-> TRUE, hasId |-> FALSE, text |-> <<>>]
BrokenFile == [exists |-> TRUE, loads |-> FALSE, hasId |-> FALSE, text |-> <<>>]
DamagedFiles == {EmptyFile, BrokenFile}

\* No id set.
NoId == <<>>

\* An identity that is generated anew and written at every construction.
LoadIdentityAlwaysFresh(file, fresh) ==
    [id |-> fresh, file |-> WrittenFile(fresh), loaded |-> FALSE,
     fatal |-> FALSE]

\* The identity block of the constructor: sentryId is a fresh uuid4; if
\* telemetry.ini exists, loads and has a Sentry/Id, that value replaces it;
\* if it exists without one or does not load, STFATAL is logged and the
\* fresh id stays; if it does not exist it is written with the fresh id.
\* The result: the id, the file afterwards, whether the id came from the
\* file, whether STFATAL was logged.
LoadIdentity(file, fresh) ==
    IF file.exists
    THEN IF file.loads /\ file.hasId
         THEN [id |-> Rebuild(file.text), file |-> file, loaded |-> TRUE,
               fatal |-> FALSE]
         ELSE [id |-> fresh, file |-> file, loaded |-> FALSE, fatal |-> TRUE]
    ELSE [id |-> fresh, file |-> WrittenFile(fresh), loaded |-> FALSE,
          fatal |-> FALSE]

(***************************************************************************)
(* State.                                                                  *)
(***************************************************************************)
VARIABLES
    instance,        \* telemetryServiceInstance: "none" or "live"
    allowed,         \* TelemetryService::allowed
    environment,     \* TelemetryService::environment
    shuttingDown,    \* TelemetryService::shuttingDown
    handlers,        \* signal handlers and the atexit hook are registered
    logMutex,        \* owner of logMutex: NoThread, a producer or Flusher
    logBuffer,       \* TelemetryService::logBuffer
    fpc,             \* position of logSendingThread
    logBufferSize,   \* local of the flush loop
    payload,         \* local of the flush loop
    nextDumpTime,    \* local of the flush loop
    iterations,      \* number of loop iterations started
    now,             \* the latest read of system_clock::now(), in milliseconds
    ppc,             \* position of each producer thread
    pcall,           \* arguments of each producer's call in progress
    nextMsg,         \* the next fresh message text
    sentryEvents,    \* bag of the events handed to sentry_capture_event
    posts,           \* calls of logHttpClient.Post, in order
    drains,          \* snapshots taken by the drain block, in order
    attempts,        \* messages of the completed logToDatadog calls, in order
    dropped,         \* messages logToDatadog ignored because the buffer was full
    retriggered,     \* a trigger has fired after shuttingDown was set
    delivered,       \* events handed to the dispatcher callback, in order
    postResults,     \* outcomes of the returned Post calls, in order
    appendTimes,     \* the clock at each completed logToDatadog call, in order
    configFile,      \* contents of <config home>/et/telemetry.ini
    sentryId,        \* the id given to sentry_set_user
    identities,      \* the id of each construction so far (NoId: none)
    warnings         \* messages written by the destructor

svcVars == <<instance, allowed, environment, shuttingDown, handlers>>
bufVars == <<logMutex, logBuffer>>
loopVars == <<fpc, logBufferSize, payload, nextDumpTime, iterations, now>>
prodVars == <<ppc, pcall, nextMsg>>
obsVars == <<postResults, appendTimes>>
idVars == <<configFile, sentryId, identities>>
histVars == <<sentryEvents, posts, drains, attempts, dropped, retriggered,
             delivered, obsVars, idVars, warnings>>
vars == <<svcVars, bufVars, loopVars, prodVars, histVars>>

NoCall == [kind |-> "none"]

\* The process has not been ended by abort().
ProcessRuns == fpc # "terminated"

\* The state at process start: no service instance.
Init ==
    /\ instance = "none"
    /\ allowed = FALSE
    /\ environment = ""
    /\ shuttingDown = FALSE
    /\ handlers = FALSE
    /\ logMutex = NoThread
    /\ logBuffer = EmptyBuffer
    /\ fpc = "none"
    /\ logBufferSize = 0
    /\ payload = EmptyPayload
    /\ nextDumpTime = 0
    /\ iterations = 0
    /\ now = 0
    /\ ppc = [p \in Producers |-> "idle"]
    /\ pcall = [p \in Producers |-> NoCall]
    /\ nextMsg = 1
    /\ sentryEvents = EmptyBag
    /\ posts = <<>>
    /\ drains = <<>>
    /\ attempts = <<>>
    /\ dropped = {}
    /\ retriggered = FALSE
    /\ delivered = <<>>
    /\ postResults = <<>>
    /\ appendTimes = <<>>
    /\ configFile = NoFile
    /\ sentryId = NoId
    /\ identities = <<>>
    /\ warnings = 0

(***************************************************************************)
(* Construction.                                                           *)
(***************************************************************************)
\* TelemetryService::TelemetryService: allowed is cleared when
\* ET_NO_TELEMETRY is set; an allowed service sets its identity, registers
\* the signal handlers and the exit hook, installs the callback and starts
\* logSendingThread.  fresh is the uuid sole::uuid4() draws.  STFATAL either
\* ends the process (the constructor does not return and no instance is
\* set) or only logs, as the logging setup decides: aborts says which.
\* Every construction is entered in identities.
Create(allow, noTelemetry, env, fresh, aborts) ==
    LET on == allow /\ ~noTelemetry
        r == LoadIdentity(configFile, fresh)
    IN  /\ instance = "none"
        /\ IF on /\ r.fatal /\ aborts
           THEN /\ identities' = Append(identities,
                      [id |-> NoId, fresh |-> fresh, loaded |-> FALSE,
                       fatal |-> TRUE])
                /\ UNCHANGED <<svcVars, fpc, configFile, sentryId>>
           ELSE /\ instance' = "live"
                /\ allowed' = on
                /\ environment' = env
                /\ shuttingDown' = FALSE
                /\ handlers' = on
                /\ fpc' = IF on THEN "start" ELSE "none"
                /\ IF on
                   THEN /\ sentryId' = r.id
                        /\ configFile' = r.file
                        /\ identities' = Append(identities,
                              [id |-> r.id, fresh |-> fresh,
                               loaded |-> r.loaded, fatal |-> r.fatal])
                   ELSE /\ identities' = Append(identities,
                              [id |-> NoId, fresh |-> NoId, loaded |-> FALSE,
                               fatal |-> FALSE])
                        /\ UNCHANGED <<configFile, sentryId>>
        /\ UNCHANGED <<bufVars, logBufferSize, payload, nextDumpTime,
                       iterations, now, prodVars, sentryEvents, posts, drains,
                       attempts, dropped, retriggered, delivered, obsVars,
                       warnings>>

\* A destructor that always writes its message.
DestroyAlwaysWarns ==
    /\ ProcessRuns
    /\ instance = "live"
    /\ instance' = "destroyed"
    /\ warnings' = warnings + 1
    /\ UNCHANGED <<allowed, environment, shuttingDown, handlers, bufVars,
                   loopVars, prodVars, sentryEvents, posts, drains, attempts,
                   dropped, retriggered, delivered, obsVars, idVars>>

\* TelemetryService::~TelemetryService(): if (!shuttingDown) STERROR << ...
\* Only the destructor's body is followed; the process is not followed
\* past it.
Destroy ==
    /\ ProcessRuns
    /\ instance = "live"
    /\ instance' = "destroyed"
    /\ warnings' = IF ~shuttingDown THEN warnings + 1 ELSE warnings
    /\ UNCHANGED <<allowed, environment, shuttingDown, handlers, bufVars,
                   loopVars, prodVars, sentryEvents, posts, drains, attempts,
                   dropped, retriggered, delivered, obsVars, idVars>>

(***************************************************************************)
(* Shutdown triggers.                                                      *)
(***************************************************************************)
\* A shutdown that does not ask whether the service exists.
ShutdownTelemetryUnchecked == shuttingDown' = Shutdown(shuttingDown)

\* shutdownTelemetry(): if (TelemetryService::exists()) get()->shutdown();
ShutdownTelemetry ==
    IF instance = "live"
    THEN shuttingDown' = Shutdown(shuttingDown)
    ELSE UNCHANGED shuttingDown

\* An explicit call needs nothing; the signal handler and the exit hook run
\* once the constructor has registered them.
Trigger(kind) ==
    /\ ProcessRuns
    /\ kind # "explicit" => handlers
    /\ ShutdownTelemetry
    /\ retriggered' = (retriggered \/ shuttingDown)
    /\ UNCHANGED <<instance, allowed, environment, handlers, bufVars, loopVars,
                   prodVars, sentryEvents, posts, drains, attempts, dropped,
                   delivered, obsVars, idVars, warnings>>

(***************************************************************************)
(* logMutex.                                                               *)
(***************************************************************************)
\* A lock that never waits.
CanLockAlways(t) == TRUE

\* lock_guard<recursive_mutex> guard(logMutex) blocks until no other thread
\* holds the mutex.  No thread of this file locks it twice, so the recursion
\* depth is always one.
CanLock(t) == logMutex = NoThread


(***************************************************************************)
(* logSendingThread.                                                       *)
(***************************************************************************)
\* auto nextDumpTime = std::chrono::system_clock::now(): the first read of
\* the clock; nothing has read it before, and the value it returns is the
\* origin the later reads are counted from.
FlusherStart ==
    /\ fpc = "start"
    /\ nextDumpTime' = now
    /\ fpc' = "loop"
    /\ UNCHANGED <<svcVars, bufVars, logBufferSize, payload, iterations, now,
                   prodVars, histVars>>

\* while (!shuttingDown) { string payload; int logBufferSize;
FlusherLoop ==
    /\ fpc = "loop"
    /\ IF shuttingDown
       THEN /\ fpc' = "done"
            /\ UNCHANGED iterations
       ELSE /\ iterations < MaxIterations
            /\ iterations' = iterations + 1
            /\ fpc' = "readSize"
    /\ UNCHANGED <<svcVars, bufVars, logBufferSize, payload, nextDumpTime,
                   now, prodVars, histVars>>

\* { lock_guard<recursive_mutex> guard(logMutex);
\*   logBufferSize = (int)logBuffer.size(); }
FlusherReadSize ==
    /\ fpc = "readSize"
    /\ CanLock(Flusher)
    /\ logBufferSize' = Size(logBuffer)
    /\ fpc' = "decide"
    /\ UNCHANGED <<svcVars, bufVars, payload, nextDumpTime, iterations, now,
                   prodVars, histVars>>

\* A flush decision that leaves the deadline as it is.
FlusherDecideKeepDeadline ==
    /\ fpc = "decide"
    /\ \E d1 \in ClockReads(ReadsClock(logBufferSize)) :
         /\ now' = now + d1
         /\ fpc' = IF ShouldFlush(logBufferSize, nextDumpTime, now + d1)
                   THEN "lockDrain" ELSE "sleep"
    /\ UNCHANGED <<svcVars, bufVars, logBufferSize, payload, nextDumpTime,
                   iterations, prodVars, histVars>>

\* if (logBufferSize) { if (logBufferSize >= 1024 || nextDumpTime < now()) {
\*   nextDumpTime = std::chrono::system_clock::now() + chrono::seconds(30);
\* Each now() is a read of the system clock of its own: the read of line
\* 175 is made only when the size is neither 0 nor at the high-water mark
\* (&& and || short-circuit), the read of line 177 only when flushing, and
\* it is the later read that the deadline is computed from.
FlusherDecide ==
    /\ fpc = "decide"
    /\ \E d1 \in ClockReads(ReadsClock(logBufferSize)) :
         IF ShouldFlush(logBufferSize, nextDumpTime, now + d1)
         THEN \E d2 \in ClockReads(TRUE) :
                 /\ now' = now + d1 + d2
                 /\ nextDumpTime' = now' + DumpIntervalMs
                 /\ fpc' = "lockDrain"
         ELSE /\ now' = now + d1
              /\ fpc' = "sleep"
              /\ UNCHANGED nextDumpTime
    /\ UNCHANGED <<svcVars, bufVars, logBufferSize, payload, iterations,
                   prodVars, histVars>>

\* { lock_guard<recursive_mutex> guard(logMutex);
FlusherLockDrain ==
    /\ fpc = "lockDrain"
    /\ CanLock(Flusher)
    /\ logMutex' = Flusher
    /\ fpc' = "serialize"
    /\ UNCHANGED <<svcVars, logBuffer, logBufferSize, payload, nextDumpTime,
                   iterations, now, prodVars, histVars>>

\*   payload = json(logBuffer).dump(4);
\* dump throws when a string of a record is not valid UTF-8.  Nothing in the
\* thread's lambda catches the exception, so std::terminate is called: the
\* payload is not assigned, the buffer is not cleared and the lock_guard is
\* never released.
FlusherSerialize ==
    /\ fpc = "serialize"
    /\ IF Dumps(logBuffer)
       THEN /\ payload' = Dump(logBuffer)
            /\ fpc' = "clear"
       ELSE /\ fpc' = "terminate"
            /\ UNCHANGED payload
    /\ UNCHANGED <<svcVars, bufVars, logBufferSize, nextDumpTime, iterations,
                   now, prodVars, histVars>>

\* std::terminate calls abort(), which raises SIGABRT: the handler the
\* constructor registered for it (line 153) runs shutdownTelemetry.
TerminateHandler ==
    /\ fpc = "terminate"
    /\ instance = "live"
    /\ ~shuttingDown
    /\ Trigger("signal")

\* The handler has returned and abort() ends the process with all its
\* threads.
Terminate ==
    /\ fpc = "terminate"
    /\ instance = "live" => shuttingDown
    /\ fpc' = "terminated"
    /\ UNCHANGED <<svcVars, bufVars, logBufferSize, payload, nextDumpTime,
                   iterations, now, prodVars, histVars>>

\* A drain block that does not release the mutex at its end.
FlusherClearKeepLock ==
    /\ fpc = "clear"
    /\ logBuffer' = EmptyBuffer
    /\ drains' = Append(drains, [snapshot |-> payload, upto |-> Len(attempts)])
    /\ fpc' = "recheck"
    /\ UNCHANGED <<svcVars, logMutex, logBufferSize, payload, nextDumpTime,
                   iterations, now, prodVars, sentryEvents, posts, attempts,
                   dropped, retriggered, delivered, obsVars, idVars, warnings>>

\*   logBuffer.clear(); }
FlusherClear ==
    /\ fpc = "clear"
    /\ logBuffer' = EmptyBuffer
    /\ logMutex' = NoThread
    /\ drains' = Append(drains, [snapshot |-> payload, upto |-> Len(attempts)])
    /\ fpc' = "recheck"
    /\ UNCHANGED <<svcVars, logBufferSize, payload, nextDumpTime, iterations,
                   now, prodVars, sentryEvents, posts, attempts, dropped,
                   retriggered, delivered, obsVars, idVars, warnings>>

\* headers, timeouts; if (shuttingDown) break;
FlusherRecheck ==
    /\ fpc = "recheck"
    /\ IF shuttingDown
       THEN /\ fpc' = "done"
            /\ logBufferSize' = 0
            /\ payload' = EmptyPayload
       ELSE /\ fpc' = "post"
            /\ UNCHANGED <<logBufferSize, payload>>
    /\ UNCHANGED <<svcVars, bufVars, nextDumpTime, iterations, now, prodVars,
                   histVars>>

\* logHttpClient.Post(path, headers, payload, "application/json") is entered.
FlusherPost ==
    /\ fpc = "post"
    /\ posts' = Append(posts, [body |-> payload, shuttingDown |-> shuttingDown,
                               time |-> now])
    /\ fpc' = "inPost"
    /\ UNCHANGED <<svcVars, bufVars, logBufferSize, payload, nextDumpTime,
                   iterations, now, prodVars, sentryEvents, drains, attempts,
                   dropped, retriggered, delivered, obsVars, idVars, warnings>>

\* A Post that is made again when it returns.
FlusherPostReturnRetry ==
    /\ fpc = "inPost"
    /\ fpc' = "post"
    /\ UNCHANGED <<svcVars, bufVars, logBufferSize, payload, nextDumpTime,
                   iterations, now, prodVars, sentryEvents, posts, drains,
                   attempts, dropped, retriggered, delivered, appendTimes,
                   idVars, warnings>>

\* Post returns; its result is not looked at.
FlusherPostReturn ==
    /\ fpc = "inPost"
    /\ fpc' = "sleep"
    /\ UNCHANGED <<svcVars, bufVars, logBufferSize, payload, nextDumpTime,
                   iterations, now, prodVars, sentryEvents, posts, drains,
                   attempts, dropped, retriggered, delivered, appendTimes,
                   idVars, warnings>>

\* this_thread::sleep_for(chrono::milliseconds(100)): the sleep is counted
\* from the call and returns after at least 100 ms; d is the time it took.
\* The locals of the loop body end with the iteration.
FlusherSleep(d) ==
    /\ fpc = "sleep"
    /\ d >= SleepMs
    /\ now' = now + d
    /\ fpc' = "loop"
    /\ logBufferSize' = 0
    /\ payload' = EmptyPayload
    /\ UNCHANGED <<svcVars, bufVars, nextDumpTime, iterations, prodVars,
                   histVars>>

\* Post returns, its outcome left aside.
PostReturn ==
    /\ FlusherPostReturn
    /\ UNCHANGED postResults

\* The steps of the loop other than the return of Post.
FlusherWork ==
    \/ FlusherLoop
    \/ FlusherReadSize
    \/ FlusherDecide
    \/ FlusherLockDrain
    \/ FlusherSerialize
    \/ TerminateHandler
    \/ Terminate
    \/ FlusherClear
    \/ FlusherRecheck
    \/ FlusherPost
    \/ \E d \in SleepDurations : FlusherSleep(d)

FlusherLoopStep ==
    \/ FlusherWork
    \/ PostReturn

FlusherStep ==
    \/ FlusherStart
    \/ FlusherLoopStep

(***************************************************************************)
(* Producer threads.                                                       *)
(***************************************************************************)
DirectLevels == {"SENTRY_LEVEL_WARNING"}

\* The maps a caller of logToDatadog passes.
DatadogMaps(m) == {[message |-> text, level |-> "Info"] : text \in LogTexts(m)}

Call(kind, via, ev, map, m) ==
    [kind |-> kind, via |-> via, ev |-> ev, map |-> map, message |-> m]

NoEvent == [level |-> "", logger |-> "", action |-> ""]

\* logToSentry(level, message): if (!allowed) return;
\* sentry_capture_event(sentry_value_new_message_event(level, ...)).
LogToSentry(level, m, via) ==
    IF allowed
    THEN sentryEvents' = sentryEvents (+)
             SetToBag({[level |-> level, message |-> m, via |-> via]})
    ELSE UNCHANGED sentryEvents

\* TelemetryDispatcher::handle(data): the callback runs once the constructor
\* has installed it.  A forwarded event enters logToAll with the rendered
\* text: logToSentry runs and the thread goes on to logToDatadog.  Any other
\* event returns at once.
Handle(p, ev) ==
    /\ ProcessRuns
    /\ handlers
    /\ ppc[p] = "idle"
    /\ IF Forwarded(instance = "live", ev)
       THEN /\ nextMsg <= MaxRecords
            /\ LogToSentry(logLevelToSentry(ev.level), nextMsg, "handle")
            /\ \E logText \in LogTexts(nextMsg) :
                 pcall' = [pcall EXCEPT ![p] =
                   Call("logToAll", "handle", ev,
                        AllMessage(logLevelToSentry(ev.level), logText), nextMsg)]
            /\ ppc' = [ppc EXCEPT ![p] = "logToDatadog"]
            /\ nextMsg' = nextMsg + 1
       ELSE UNCHANGED <<prodVars, sentryEvents>>
    /\ UNCHANGED <<svcVars, bufVars, loopVars, posts, drains, attempts,
                   dropped, retriggered, obsVars, idVars, warnings>>

\* TelemetryService::get()->logToAll(level, message), called directly.
CallLogToAll(p, level) ==
    /\ ProcessRuns
    /\ instance = "live"
    /\ ppc[p] = "idle"
    /\ nextMsg <= MaxRecords
    /\ LogToSentry(level, nextMsg, "direct")
    /\ \E message \in LogTexts(nextMsg) :
         pcall' = [pcall EXCEPT ![p] =
           Call("logToAll", "direct", NoEvent, AllMessage(level, message),
                nextMsg)]
    /\ ppc' = [ppc EXCEPT ![p] = "logToDatadog"]
    /\ nextMsg' = nextMsg + 1
    /\ UNCHANGED <<svcVars, bufVars, loopVars, posts, drains, attempts,
                   dropped, retriggered, delivered, obsVars, idVars, warnings>>

\* TelemetryService::get()->logToSentry(level, message), called directly.
CallLogToSentry(p, level) ==
    /\ ProcessRuns
    /\ instance = "live"
    /\ ppc[p] = "idle"
    /\ nextMsg <= MaxRecords
    /\ LogToSentry(level, nextMsg, "direct")
    /\ nextMsg' = nextMsg + 1
    /\ UNCHANGED <<svcVars, bufVars, loopVars, ppc, pcall, posts, drains,
                   attempts, dropped, retriggered, delivered, obsVars, idVars, warnings>>

\* logToDatadog(map<string, string> message) takes any map: besides the one
\* above, a map that also supplies fields named like the three logToDatadog
\* writes, a map without "level" and a map without "message".
CallerMaps(m) ==
    DatadogMaps(m) \cup
    {[message |-> <<m>>, level |-> "Debug", Environment |-> "caller",
      Application |-> "caller", Version |-> "caller"],
     [message |-> <<m>>],
     [level |-> "Info"]}

\* TelemetryService::get()->logToDatadog(map), called directly: the map is
\* passed by value.
CallLogToDatadogWith(p, map) ==
    /\ ProcessRuns
    /\ instance = "live"
    /\ ppc[p] = "idle"
    /\ nextMsg <= MaxRecords
    /\ pcall' = [pcall EXCEPT ![p] =
           Call("logToDatadog", "direct", NoEvent, map, nextMsg)]
    /\ ppc' = [ppc EXCEPT ![p] = "logToDatadog"]
    /\ nextMsg' = nextMsg + 1
    /\ UNCHANGED <<svcVars, bufVars, loopVars, histVars>>

CallLogToDatadog(p) ==
    \E map \in DatadogMaps(nextMsg) : CallLogToDatadogWith(p, map)

\* logToDatadog(message): under logMutex, return if the buffer is full, else
\* write the three fields and push_back.
LogToDatadog(p) ==
    /\ ProcessRuns
    /\ ppc[p] = "logToDatadog"
    /\ CanLock(p)
    /\ IF BufferFull(logBuffer)
       THEN /\ dropped' = dropped \cup {pcall[p].message}
            /\ UNCHANGED logBuffer
       ELSE /\ logBuffer' = PushBack(logBuffer, Enrich(pcall[p].map, environment))
            /\ UNCHANGED dropped
    /\ attempts' = Append(attempts, pcall[p].message)
    /\ ppc' = [ppc EXCEPT ![p] = "idle"]
    /\ pcall' = [pcall EXCEPT ![p] = NoCall]
    /\ UNCHANGED <<svcVars, logMutex, loopVars, nextMsg, sentryEvents, posts,
                   drains, retriggered, delivered, postResults, idVars,
                   warnings>>

\* A logToDatadog call completes.
LogToDatadogStep(p) ==
    /\ LogToDatadog(p)
    /\ UNCHANGED appendTimes

\* A log statement of the program reaches the callback.
Log(p, ev) ==
    /\ Handle(p, ev)
    /\ UNCHANGED delivered

LogThreadStep(p) ==
    \/ \E ev \in LogEvents : Log(p, ev)
    \/ LogToDatadogStep(p)

ApiThreadStep(p) ==
    \/ \E level \in DirectLevels : CallLogToAll(p, level)
    \/ \E level \in DirectLevels : CallLogToSentry(p, level)
    \/ CallLogToDatadog(p)
    \/ LogToDatadogStep(p)

(***************************************************************************)
(* The system.                                                             *)
(***************************************************************************)
Next ==
    \/ \E allow \in BOOLEAN, noTelemetry \in BOOLEAN, env \in Environments,
          fresh \in Uuids, aborts \in BOOLEAN :
           Create(allow, noTelemetry, env, fresh, aborts)
    \/ \E kind \in TriggerKinds : Trigger(kind)
    \/ FlusherStep
    \/ \E p \in LogThreads : LogThreadStep(p)
    \/ \E p \in ApiThreads : ApiThreadStep(p)

Spec == Init /\ [][Next]_vars

(***************************************************************************)
(* The service under load: an allowed, running service whose flush loop    *)
(* has not yet made its first wake, after a burst of n direct logToDatadog *)
(* calls.  The API thread goes on calling logToDatadog while the flush     *)
(* loop runs.                                                              *)
(***************************************************************************)
Bursts == {HighWaterMark - 1, LogBufferLimit}

InitLoaded ==
    /\ instance = "live"
    /\ allowed = TRUE
    /\ environment \in Environments
    /\ shuttingDown = FALSE
    /\ handlers = TRUE
    /\ logMutex = NoThread
    /\ \E n \in Bursts : logBuffer = [burst |-> n, records |-> <<>>]
    /\ attempts = <<>>
    /\ fpc = "loop"
    /\ logBufferSize = 0
    /\ payload = EmptyPayload
    /\ nextDumpTime = 0
    /\ iterations = 0
    /\ now = 0
    /\ ppc = [p \in Producers |-> "idle"]
    /\ pcall = [p \in Producers |-> NoCall]
    /\ nextMsg = 1
    /\ sentryEvents = EmptyBag
    /\ posts = <<>>
    /\ drains = <<>>
    /\ dropped = {}
    /\ retriggered = FALSE
    /\ delivered = <<>>
    /\ postResults = <<>>
    /\ appendTimes = <<>>
    /\ configFile = WrittenFile(LoadedId)
    /\ sentryId = LoadedId
    /\ identities = <<[id |-> LoadedId, fresh |-> LoadedId, loaded |-> FALSE,
                       fatal |-> FALSE]>>
    /\ warnings = 0

NextLoaded ==
    \/ FlusherLoopStep
    \/ \E p \in ApiThreads : CallLogToDatadog(p) \/ LogToDatadogStep(p)

SpecLoaded == InitLoaded /\ [][NextLoaded]_vars

(***************************************************************************)
(* The interceptor on its own: the service is constructed and the logging  *)
(* thread delivers up to MaxEvents events, each of them recorded in        *)
(* delivered, before the flush loop has been scheduled.                    *)
(***************************************************************************)
Deliver(p, ev) ==
    /\ Len(delivered) < MaxEvents
    /\ Handle(p, ev)
    /\ delivered' = Append(delivered, ev)

NextHandle ==
    \/ \E allow \in BOOLEAN, noTelemetry \in BOOLEAN, env \in Environments,
          fresh \in Uuids, aborts \in BOOLEAN :
           Create(allow, noTelemetry, env, fresh, aborts)
    \/ \E p \in LogThreads, ev \in LogEvents : Deliver(p, ev)
    \/ \E p \in LogThreads : LogToDatadogStep(p)

SpecHandle == Init /\ [][NextHandle]_vars

(***************************************************************************)
(* The service under load with the transport and the clock observed: the   *)
(* outcome of every Post (httplib reports failures in the result the code  *)
(* discards) and the time of every completed logToDatadog are recorded.    *)
(***************************************************************************)
PostResults == {"ok", "failed"}

PostResult(r) ==
    /\ FlusherPostReturn
    /\ postResults' = Append(postResults, r)

TimedLogToDatadog(p) ==
    /\ LogToDatadog(p)
    /\ appendTimes' = Append(appendTimes, now)

NextTransport ==
    \/ FlusherWork
    \/ \E r \in PostResults : PostResult(r)
    \/ \E p \in ApiThreads : CallLogToDatadog(p) \/ TimedLogToDatadog(p)

SpecTransport == InitLoaded /\ [][NextTransport]_vars

(***************************************************************************)
(* The life of the service over several runs of the process: it is         *)
(* constructed, up to MaxConstructions times in all, a shutdown trigger    *)
(* may fire, it is destroyed, the process ends and a new one starts;       *)
(* telemetry.ini outlives the process and may be deleted at any time or    *)
(* damaged between two runs.                                               *)
(***************************************************************************)
ConstructWithIdentity(allow, noTelemetry, env, fresh, aborts) ==
    /\ Len(identities) < MaxConstructions
    /\ Create(allow, noTelemetry, env, fresh, aborts)

\* The process ends and the next one starts: the file and the histories
\* stay, everything else is as at process start.
ProcessExit ==
    /\ instance # "none"
    /\ instance' = "none"
    /\ allowed' = FALSE
    /\ environment' = ""
    /\ shuttingDown' = FALSE
    /\ handlers' = FALSE
    /\ fpc' = "none"
    /\ sentryId' = NoId
    /\ retriggered' = FALSE
    /\ UNCHANGED <<bufVars, logBufferSize, payload, nextDumpTime, iterations,
                   now, prodVars, sentryEvents, posts, drains, attempts,
                   dropped, delivered, obsVars, configFile, identities,
                   warnings>>

\* telemetry.ini is removed.
DeleteConfigFile ==
    /\ configFile.exists
    /\ configFile' = NoFile
    /\ UNCHANGED <<svcVars, bufVars, loopVars, prodVars, sentryEvents, posts,
                   drains, attempts, dropped, retriggered, delivered, obsVars,
                   sentryId, identities, warnings>>

\* telemetry.ini is replaced, between two runs, by a file without an id or
\* by one that does not load.
DamageConfigFile(file) ==
    /\ instance = "none"
    /\ configFile.exists
    /\ configFile.hasId
    /\ configFile' = file
    /\ UNCHANGED <<svcVars, bufVars, loopVars, prodVars, sentryEvents, posts,
                   drains, attempts, dropped, retriggered, delivered, obsVars,
                   sentryId, identities, warnings>>

NextLifecycle ==
    \/ \E allow \in BOOLEAN, noTelemetry \in BOOLEAN, env \in Environments,
          fresh \in Uuids, aborts \in BOOLEAN :
           ConstructWithIdentity(allow, noTelemetry, env, fresh, aborts)
    \/ \E kind \in TriggerKinds : Trigger(kind)
    \/ Destroy
    \/ ProcessExit
    \/ DeleteConfigFile
    \/ \E file \in DamagedFiles : DamageConfigFile(file)

SpecLifecycle == Init /\ [][NextLifecycle]_vars

(***************************************************************************)
(* The records: the service under load with both entries in use.  The      *)
(* logging thread delivers events to the callback, and every delivery that *)
(* enters logToAll is recorded with the event and the message it rendered; *)
(* the API thread calls logToDatadog with maps of its own.                 *)
(***************************************************************************)
DeliverTracked(p, ev) ==
    /\ Handle(p, ev)
    /\ delivered' = IF nextMsg' # nextMsg
                    THEN Append(delivered, [ev |-> ev, message |-> nextMsg])
                    ELSE delivered

\* The events delivered here: one that qualifies and one that does not.
RecordEvents ==
    {[level |-> "Error", logger |-> "default", action |-> "NormalLog"],
     [level |-> "Info", logger |-> "default", action |-> "NormalLog"]}

NextRecords ==
    \/ FlusherLoopStep
    \/ \E p \in LogThreads, ev \in RecordEvents : DeliverTracked(p, ev)
    \/ \E p \in ApiThreads, map \in CallerMaps(nextMsg) :
           CallLogToDatadogWith(p, map)
    \/ \E p \in Producers : LogToDatadogStep(p)

InitFull ==
    /\ InitLoaded
    /\ Size(logBuffer) = LogBufferLimit

SpecRecords == InitFull /\ [][NextRecords]_vars

(***************************************************************************)
(* The service and its shutdown: construction, the triggers, the flush     *)
(* thread and two threads that call logToDatadog.                          *)
(***************************************************************************)
NextShutdown ==
    \/ \E allow \in BOOLEAN, noTelemetry \in BOOLEAN, env \in Environments,
          fresh \in Uuids, aborts \in BOOLEAN :
           Create(allow, noTelemetry, env, fresh, aborts)
    \/ \E kind \in TriggerKinds : Trigger(kind)
    \/ FlusherStep
    \/ \E p \in Producers : CallLogToDatadog(p) \/ LogToDatadogStep(p)

SpecShutdown == Init /\ [][NextShutdown]_vars

(***************************************************************************)
(* The system with a fairly scheduled flush thread.                        *)
(***************************************************************************)
FairSpec == SpecShutdown /\ WF_vars(FlusherStep)

(***************************************************************************)
(* Helpers of the properties below.                                        *)
(***************************************************************************)
\* The value an object of a payload gives for a key.
ValueOf(obj, key) ==
    LET i == CHOOSE j \in 1..Len(obj) : obj[j][1] = key IN obj[i][2]

\* The messages of a payload's objects, in payload order.
PayloadMessages(body) ==
    [i \in 1..Len(body.objects) |->
        TextId(ValueOf(body.objects[i], "message"))]

\* The number of records a payload holds.
PayloadSize(body) == body.burst + Len(body.objects)

\* The messages of the records pushed into the buffer, in buffer order.
BufferMessages ==
    [i \in 1..Len(logBuffer.records) |->
        TextId(logBuffer.records[i]["message"])]

RECURSIVE DrainedMessages(_)
DrainedMessages(k) ==
    IF k = 0 THEN <<>>
    ELSE DrainedMessages(k - 1) \o PayloadMessages(drains[k].snapshot)

RECURSIVE DrainedBurst(_)
DrainedBurst(k) ==
    IF k = 0 THEN 0 ELSE DrainedBurst(k - 1) + drains[k].snapshot.burst

\* The messages logToDatadog accepted, in the order their appends completed.
Accepted == SelectSeq(attempts, LAMBDA m : m \notin dropped)

(***************************************************************************)
(* C1.  No call of logHttpClient.Post starts after shuttingDown has become *)
(* true, whatever the interleaving of the flush loop, the producers and    *)
(* the shutdown triggers.  Every entry of posts records the value the flag *)
(* had when Post was entered.                                              *)
(***************************************************************************)
C1_NoPostAfterShutdown ==
    \A i \in 1..Len(posts) : ~posts[i].shuttingDown

(***************************************************************************)
(* C2.  The drain is atomic with respect to the appends: the snapshots     *)
(* taken so far, in order, followed by the buffer, are exactly the         *)
(* accepted records in the order their appends completed.  So a record     *)
(* accepted before a drain took the lock is in that drain's snapshot or an *)
(* earlier one, a record accepted after the drain released it is in no     *)
(* snapshot taken so far, and every accepted record is in exactly one      *)
(* snapshot or still in the buffer.                                        *)
(***************************************************************************)
C2_DrainAtomic ==
    /\ DrainedMessages(Len(drains)) \o BufferMessages = Accepted
    /\ DrainedBurst(Len(drains)) + logBuffer.burst = 0

\* The drain block holds the lock between serialize and clear while a
\* producer's append waits for it.
C2_Witness ==
    /\ fpc = "clear"
    /\ logMutex = Flusher
    /\ PayloadSize(payload) >= 1
    /\ \E p \in Producers : ppc[p] = "logToDatadog"

(***************************************************************************)
(* C3.  Whenever a drain completes, if the appends made since the previous *)
(* drain (since construction for the first one) number at most             *)
(* 16 * 1024, the snapshot holds exactly their records in append order and *)
(* the buffer is empty afterwards.                                         *)
(***************************************************************************)
C3_DrainReturnsAppends ==
    [][Len(drains') = Len(drains) + 1 =>
         LET from == IF Len(drains) = 0 THEN 0 ELSE drains[Len(drains)].upto
             since == SubSeq(attempts, from + 1, Len(attempts))
             last == drains'[Len(drains')].snapshot
         IN  logBuffer.burst + Len(since) <= LogBufferLimit =>
               /\ last.burst = logBuffer.burst
               /\ PayloadMessages(last) = since
               /\ PayloadSize(last) = logBuffer.burst + Len(since)
               /\ logBuffer' = EmptyBuffer]_vars

\* A drain has returned 1025 records, the last two of them
\* pushed after the burst, in order, and left the buffer empty.
C3_Witness ==
    /\ Len(drains) = 1
    /\ PayloadSize(drains[1].snapshot) = HighWaterMark + 1
    /\ PayloadMessages(drains[1].snapshot) = <<1, 2>>
    /\ logBuffer = EmptyBuffer

(***************************************************************************)
(* C4.  In every reachable state the buffer holds at most 16 * 1024        *)
(* records.                                                                *)
(***************************************************************************)
C4_BufferWithinCap == Size(logBuffer) <= LogBufferLimit

(***************************************************************************)
(* C5.  A logToDatadog call that finds the buffer over capacity (more than *)
(* 16 * 1024 records) returns normally and leaves the buffer, the mutex    *)
(* and the flush loop's payload as they were; the record it dropped is     *)
(* never in the buffer nor in any snapshot.                                *)
(***************************************************************************)
C5_OverCapacityAppendIsNoOp ==
    /\ [](/\ \A i \in 1..Len(BufferMessages) : BufferMessages[i] \notin dropped
          /\ \A k \in 1..Len(drains) :
               \A i \in 1..Len(drains[k].snapshot.objects) :
                 PayloadMessages(drains[k].snapshot)[i] \notin dropped)
    /\ [][\A p \in Producers :
            (/\ ppc[p] = "logToDatadog"
             /\ ppc'[p] # "logToDatadog"
             /\ Size(logBuffer) > LogBufferLimit)
            => /\ ppc'[p] = "idle"
               /\ logBuffer' = logBuffer
               /\ pcall[p].message \in dropped'
               /\ UNCHANGED <<logMutex, payload, posts, drains>>]_vars

\* A record was dropped, and a later drain has emptied the over-full buffer.
C5_Witness ==
    /\ dropped = {2}
    /\ Len(drains) = 1
    /\ PayloadSize(drains[1].snapshot) = LogBufferLimit + 1
    /\ PayloadMessages(drains[1].snapshot) = <<1>>
    /\ drains[1].upto = 2

(***************************************************************************)
(* C6.  With the service running: (1) a wake that reads a size of at least *)
(* 1024 flushes, also when the deadline has not passed; (2) a wake that    *)
(* reads a non-zero size after the deadline has passed flushes, also with  *)
(* a single record.  Each flush makes one Post whose body is the drained   *)
(* snapshot, so a flush of a single buffered record posts a body holding   *)
(* exactly that record.                                                    *)
(***************************************************************************)
C6_FlushTriggers ==
    /\ [][(fpc = "decide" /\ fpc' # "decide") =>
            /\ logBufferSize >= HighWaterMark => fpc' = "lockDrain"
            /\ (logBufferSize >= 1 /\ nextDumpTime < now') => fpc' = "lockDrain"]_vars
    /\ [](/\ Len(posts) <= Len(drains)
          /\ Len(drains) <= Len(posts) + 1
          /\ \A i \in 1..Len(posts) : posts[i].body = drains[i].snapshot
          /\ (~shuttingDown /\ fpc \in {"inPost", "sleep", "loop", "readSize", "decide"})
                 => Len(posts) = Len(drains))
    /\ [][(Len(posts') = Len(posts) + 1 /\ PayloadSize(payload) = 1) =>
            PayloadMessages(posts'[Len(posts')].body)
                = <<attempts[drains[Len(drains)].upto]>>]_vars

\* The first Post was made at the first wake, before the deadline had
\* passed, with 1024 records; the second with a single record.
C6_Witness ==
    /\ Len(posts) = 2
    /\ posts[1].time = 0
    /\ PayloadSize(posts[1].body) = HighWaterMark
    /\ PayloadSize(posts[2].body) = 1

(***************************************************************************)
(* C7.  Of the events delivered to the callback, exactly those with        *)
(* severity Error or Fatal, a logger other than "stdout", the normal       *)
(* dispatch action and an existing service reach the sink and the buffer:  *)
(* the sink has received one event per such delivery, with the delivery's  *)
(* severity, and no other; each such delivery has appended one record or   *)
(* is about to; the appended records are those deliveries' in order.  So   *)
(* the four deliveries Info/default, Error/default, Error/stdout,          *)
(* Fatal/default make exactly two sink calls and two appends.              *)
(***************************************************************************)
Qualifies(ev) ==
    /\ ev.level \in {"Error", "Fatal"}
    /\ ev.logger # "stdout"
    /\ ev.action = "NormalLog"
    /\ instance = "live"

C7_OnlyQualifyingForwarded ==
    LET q == SelectSeq(delivered, Qualifies)
        pending == Cardinality({p \in LogThreads : ppc[p] = "logToDatadog"})
    IN  /\ BagCardinality(sentryEvents) = Len(q)
        /\ \A i \in 1..Len(q) :
             [level |-> logLevelToSentry(q[i].level), message |-> i,
              via |-> "handle"] \in BagToSet(sentryEvents)
        /\ Len(attempts) + pending = Len(q)
        /\ Len(logBuffer.records) = Len(attempts)
        /\ \A i \in 1..Len(logBuffer.records) :
             /\ TextId(logBuffer.records[i]["message"]) = i
             /\ logBuffer.records[i]["level"] =
                    sentryLevelToString(logLevelToSentry(q[i].level))

\* The four deliveries have been made and both appends have completed.
C7_Witness ==
    /\ delivered =
         << [level |-> "Info", logger |-> "default", action |-> "NormalLog"],
            [level |-> "Error", logger |-> "default", action |-> "NormalLog"],
            [level |-> "Error", logger |-> "stdout", action |-> "NormalLog"],
            [level |-> "Fatal", logger |-> "default", action |-> "NormalLog"] >>
    /\ BagCardinality(sentryEvents) = 2
    /\ Len(logBuffer.records) = 2
    /\ \A p \in LogThreads : ppc[p] = "idle"

(***************************************************************************)
(* C8.  A service constructed disabled (ET_NO_TELEMETRY set, or allow      *)
(* false) stays inert whatever is delivered to it and whichever of         *)
(* logToAll, logToSentry and logToDatadog are called: the sink has         *)
(* received nothing, the buffer is empty and no Post has been made.        *)
(***************************************************************************)
C8_DisabledServiceIsInert ==
    (instance = "live" /\ ~allowed) =>
        /\ sentryEvents = EmptyBag
        /\ Size(logBuffer) = 0
        /\ posts = <<>>

(***************************************************************************)
(* C9.  shuttingDown is false at construction; no step sets it back to     *)
(* false; any trigger on an existing service leaves it true, the first     *)
(* one setting it and a later one changing nothing; a trigger with no      *)
(* service changes nothing.                                                *)
(***************************************************************************)
C9_ShutdownOnce ==
    /\ [](instance = "none" => ~shuttingDown)
    /\ [][/\ (instance = "none" /\ instance' = "live") => ~shuttingDown'
          /\ shuttingDown => shuttingDown'
          /\ (shuttingDown' # shuttingDown) =>
                 /\ instance = "live"
                 /\ UNCHANGED <<instance, allowed, environment, handlers,
                                bufVars, loopVars, prodVars, sentryEvents,
                                posts, drains, attempts, dropped>>
          /\ (retriggered' /\ ~retriggered) =>
                 /\ shuttingDown /\ shuttingDown'
                 /\ UNCHANGED <<svcVars, bufVars, loopVars, prodVars,
                                sentryEvents, posts, drains, attempts,
                                dropped>>
          /\ \A kind \in TriggerKinds :
                 (Trigger(kind) /\ instance = "live") => shuttingDown']_vars

\* A second trigger has fired on a service that was already shutting down.
C9_Witness ==
    /\ instance = "live"
    /\ shuttingDown
    /\ retriggered

(***************************************************************************)
(* C10.  With the flush thread fairly scheduled and every Post returning,  *)
(* once shuttingDown is true the flush thread reaches the end of its       *)
(* body.  A poll of the flag (the loop head or the re-check before Post)   *)
(* that finds it true leaves the loop, so no flush cycle starts after it;  *)
(* a Post in flight is left to return on its own.                          *)
(***************************************************************************)
C10_LoopExits ==
    /\ (shuttingDown /\ fpc # "none") ~> (fpc = "done")
    /\ [][/\ (shuttingDown /\ fpc \in {"loop", "recheck"} /\ fpc' # fpc)
              => fpc' = "done"
          /\ (fpc = "inPost" /\ fpc' # fpc) => fpc' = "sleep"
          /\ fpc = "done" => fpc' = "done"]_vars

(***************************************************************************)
(* C11.  A failed Post is never retried.  The records of a batch whose     *)
(* Post failed are not in the buffer and not in the body of any later      *)
(* Post; the return of a Post, failed or not, moves the loop to its sleep  *)
(* and changes nothing else: not the buffer, not the mutex, not the        *)
(* deadline, not a producer.                                               *)
(***************************************************************************)
C11_FailedPostNotRetried ==
    /\ [](\A i \in 1..Len(postResults) :
            postResults[i] = "failed" =>
              LET sent == PayloadMessages(posts[i].body)
              IN  /\ \A k \in 1..Len(sent) :
                       /\ \A n \in 1..Len(BufferMessages) :
                            BufferMessages[n] # sent[k]
                       /\ \A j \in (i + 1)..Len(posts) :
                            \A n \in 1..Len(posts[j].body.objects) :
                              PayloadMessages(posts[j].body)[n] # sent[k]
                  /\ posts[i].body.burst > 0 =>
                       /\ logBuffer.burst = 0
                       /\ \A j \in (i + 1)..Len(posts) :
                            posts[j].body.burst = 0)
    /\ [][Len(postResults') = Len(postResults) + 1 =>
            /\ fpc = "inPost" /\ fpc' = "sleep"
            /\ UNCHANGED <<svcVars, bufVars, logBufferSize, payload,
                           nextDumpTime, iterations, now, prodVars, posts,
                           drains, attempts, dropped>>]_vars

\* The first Post failed; the loop went on to a second Post, which carries
\* only the record appended after the first drain.
C11_Witness ==
    /\ Len(postResults) = 2
    /\ postResults[1] = "failed"
    /\ PayloadSize(posts[1].body) = HighWaterMark
    /\ PayloadMessages(posts[2].body) = <<2>>
    /\ posts[2].body.burst = 0

\* The constructions whose id is the one in telemetry.ini (written to it
\* or loaded from it), in order.
EnabledIdentities == SelectSeq(identities, LAMBDA e : e.id # NoId /\ ~e.fatal)

(***************************************************************************)
(* C12.  Identity round trip.  An enabled construction that finds          *)
(* telemetry.ini sets the id of the previous enabled construction, the one *)
(* the file was written with, whatever id it generated itself, and leaves  *)
(* the file as it is; one that finds no file (first run, or the file was   *)
(* deleted) sets the id it generated and writes it to the file.  The file, *)
(* while it holds an id, reads back as the id of the latest such           *)
(* construction.  (A file that was damaged in between is left as it is.)   *)
(***************************************************************************)
C12_IdentityRoundTrip ==
    /\ []((configFile.exists /\ configFile.hasId) =>
            /\ Len(EnabledIdentities) >= 1
            /\ Rebuild(configFile.text) =
                   EnabledIdentities[Len(EnabledIdentities)].id)
    /\ [][(/\ Len(identities') = Len(identities) + 1
           /\ identities'[Len(identities')].fresh # NoId) =>
            LET e == identities'[Len(identities')]
            IN  IF configFile.exists /\ configFile.loads /\ configFile.hasId
                THEN /\ e.loaded /\ ~e.fatal
                     /\ instance' = "live" /\ allowed'
                     /\ configFile' = configFile
                     /\ e.id = EnabledIdentities[Len(EnabledIdentities)].id
                     /\ sentryId' = e.id
                ELSE IF ~configFile.exists
                THEN /\ ~e.loaded /\ ~e.fatal
                     /\ instance' = "live" /\ allowed'
                     /\ e.id = e.fresh
                     /\ e.id \in Uuids
                     /\ sentryId' = e.id
                     /\ configFile'.exists /\ configFile'.hasId
                     /\ configFile'.text = UuidStr(e.fresh)
                     /\ Rebuild(configFile'.text) = e.id
                ELSE /\ e.fatal /\ ~e.loaded
                     /\ configFile' = configFile
                     /\ instance' = "live" => sentryId' = e.fresh]_vars

\* Three enabled constructions: the first wrote its id, the second loaded
\* it and dropped the different id it had generated, the third, after the
\* file was deleted, wrote a new one.
C12_Witness ==
    /\ Len(identities) = 3
    /\ identities[1].id = identities[1].fresh
    /\ ~identities[1].loaded
    /\ identities[2].loaded
    /\ identities[2].id = identities[1].id
    /\ identities[2].fresh # identities[1].id
    /\ ~identities[3].loaded
    /\ identities[3].id # NoId
    /\ identities[3].id # identities[1].id
    /\ Rebuild(configFile.text) = identities[3].id

(***************************************************************************)
(* C13.  A wake that reads a non-zero size flushes if and only if the size *)
(* is at least 1024 or the clock has reached the deadline (clock >=        *)
(* nextDumpTime), the wake at which the clock equals the deadline          *)
(* included.  The clock of a wake is what its reads returned: now after    *)
(* the step (a wake that does not flush has read it once, in the test).    *)
(***************************************************************************)
C13_FlushIffDue ==
    [][(fpc = "decide" /\ fpc' # "decide" /\ logBufferSize # 0) =>
         ((fpc' = "lockDrain") <=>
              (logBufferSize >= HighWaterMark \/ now' >= nextDumpTime))]_vars

(***************************************************************************)
(* C14.  Absent shutdown, every accepted record is handed to Post no later *)
(* than one flush interval (30 s) after its logToDatadog call completed.   *)
(* It is stated for the records appended after a flush, which wait for the *)
(* deadline that flush set: each accepted record of a Post after the first *)
(* was appended at most DumpIntervalMs before that Post started.  (A long  *)
(* sleep after a flush stands for the sleeps of 100 ms whose wakes find    *)
(* the deadline not passed, the one at the deadline itself included.)      *)
(***************************************************************************)
C14_DeliveredWithinInterval ==
    \A i \in 2..Len(posts) :
        \A k \in (drains[i - 1].upto + 1)..drains[i].upto :
            attempts[k] \notin dropped =>
                posts[i].time - appendTimes[k] <= DumpIntervalMs

(***************************************************************************)
(* C15.  If shuttingDown is true while the loop is between the end of its  *)
(* drain and the start of its Post (before the re-check, or past it and    *)
(* about to call Post), the loop's next step ends the thread: no Post is   *)
(* made, the buffer is not touched (the drained records are not put back)  *)
(* and no time is slept.  Once the thread has ended nothing is drained or  *)
(* posted any more and the buffer only grows.                              *)
(***************************************************************************)
C15_ShutdownAfterDrainAborts ==
    /\ [][(shuttingDown /\ fpc \in {"recheck", "post"} /\ fpc' # fpc) =>
            /\ fpc' = "done"
            /\ UNCHANGED <<posts, drains, logBuffer, now>>]_vars
    /\ [][fpc = "done" =>
            /\ fpc' = "done"
            /\ UNCHANGED <<posts, drains>>
            /\ Size(logBuffer') >= Size(logBuffer)]_vars

(***************************************************************************)
(* C16.  nextDumpTime changes only in the step that decides to flush, and  *)
(* that step, size-triggered or time-triggered, sets it to the clock plus  *)
(* 30 s before the buffer is drained; a wake that reads size zero or does  *)
(* not meet the flush condition leaves it unchanged; no step of another    *)
(* thread changes it.                                                      *)
(***************************************************************************)
C16_DeadlineOnlyAtFlush ==
    /\ [][nextDumpTime' # nextDumpTime =>
            (fpc = "decide" /\ fpc' = "lockDrain")]_vars
    /\ [][(fpc = "decide" /\ fpc' = "lockDrain") =>
            /\ nextDumpTime' = now' + DumpIntervalMs
            /\ UNCHANGED <<logBuffer, drains, posts>>]_vars
    /\ [][(fpc = "decide" /\ fpc' = "sleep") =>
            /\ nextDumpTime' = nextDumpTime
            /\ (logBufferSize = 0
                  \/ (logBufferSize < HighWaterMark /\ ~(nextDumpTime < now')))]_vars
    /\ [][Len(drains') = Len(drains) + 1 =>
            nextDumpTime = now + DumpIntervalMs]_vars

\* A size-triggered flush at time 0 set the deadline to 30 s; the wake at
\* 30.1 s made a time-triggered flush of one record that set it again.
C16_Witness ==
    /\ Len(drains) = 2
    /\ PayloadSize(drains[1].snapshot) >= HighWaterMark
    /\ PayloadSize(drains[2].snapshot) = 1
    /\ now = DumpIntervalMs + SleepMs
    /\ nextDumpTime = now + DumpIntervalMs

(***************************************************************************)
(* C17.  The flush loop holds logMutex only inside its drain block (and,   *)
(* within one step, for its size read), a dump that throws inside the      *)
(* block included: whenever it is about to call Post, inside Post or       *)
(* asleep the mutex is free, and every producer that has entered           *)
(* logToDatadog can complete its call at once.                             *)
(***************************************************************************)
DrainBlock == {"serialize", "clear", "terminate", "terminated"}

C18_DestructorWarning ==
    /\ [][(instance = "live" /\ instance' = "destroyed") =>
            /\ warnings' = IF shuttingDown THEN warnings ELSE warnings + 1
            /\ shuttingDown' = shuttingDown]_vars
    /\ [][warnings' # warnings =>
            /\ instance = "live" /\ instance' = "destroyed"
            /\ ~shuttingDown]_vars

\* An earlier run destroyed its service without a shutdown (one message);
\* this run's service was shut down and then destroyed (no further one).
C18_Witness ==
    /\ Len(identities) = 2
    /\ instance = "destroyed"
    /\ shuttingDown
    /\ warnings = 1

(***************************************************************************)
(* C19.  Every Post carries a non-empty batch.  A wake that read size 0    *)
(* goes to its sleep without a drain, a deadline change or a Post; between *)
(* the size read and the drain the buffer holds at least the size read, so *)
(* the drained snapshot holds at least as many records as were read.       *)
(***************************************************************************)
C19_NonEmptyBatches ==
    /\ [](/\ \A i \in 1..Len(posts) : PayloadSize(posts[i].body) >= 1
          /\ \A k \in 1..Len(drains) : PayloadSize(drains[k].snapshot) >= 1
          /\ fpc \in {"lockDrain", "serialize", "clear"} =>
                /\ logBufferSize >= 1
                /\ Size(logBuffer) >= logBufferSize
          /\ fpc \in {"recheck", "post", "inPost"} =>
                /\ logBufferSize >= 1
                /\ PayloadSize(payload) >= logBufferSize)
    /\ [][(fpc = "decide" /\ logBufferSize = 0 /\ fpc' # fpc) =>
            /\ fpc' = "sleep"
            /\ UNCHANGED <<nextDumpTime, logBuffer, drains, posts>>]_vars
    /\ [][(fpc \in {"decide", "lockDrain", "serialize"}) =>
            Size(logBuffer') >= Size(logBuffer)]_vars

\* A record was appended between the size read and the drain: the batch in
\* the Post is larger than the size the wake read.
C19_Witness ==
    /\ fpc = "inPost"
    /\ logBufferSize >= 1
    /\ PayloadSize(payload) > logBufferSize

(***************************************************************************)
(* C20.  Every record in the buffer or in a drained batch carries message, *)
(* level, Environment, Application and Version, the last three with the    *)
(* service's values whatever the caller supplied; for each qualifying      *)
(* record logToAll invokes the sink exactly once (also when the buffer is  *)
(* full and the record is dropped) and appends at most one record.         *)
(***************************************************************************)
HasField(obj, key) == \E j \in 1..Len(obj) : obj[j][1] = key

EnrichedObject(obj) ==
    /\ \A key \in {"message", "level"} \cup EnrichmentKeys : HasField(obj, key)
    /\ ValueOf(obj, "Environment") = environment
    /\ ValueOf(obj, "Application") = ApplicationName
    /\ ValueOf(obj, "Version") = ETVersion

HeldMessages == DrainedMessages(Len(drains)) \o BufferMessages

HeldCount(m) == Cardinality({j \in 1..Len(HeldMessages) : HeldMessages[j] = m})

C20_SinkOnceAndEnriched ==
    /\ \A j \in 1..Len(logBuffer.records) :
         /\ {"message", "level"} \cup EnrichmentKeys
                \subseteq DOMAIN logBuffer.records[j]
         /\ EnrichedObject(ObjectFrom(logBuffer.records[j], 1))
    /\ \A k \in 1..Len(drains) :
         \A j \in 1..Len(drains[k].snapshot.objects) :
             EnrichedObject(drains[k].snapshot.objects[j])
    /\ BagCardinality(sentryEvents) = Len(delivered)
    /\ \A i \in 1..Len(delivered) :
         LET d == delivered[i]
             level == logLevelToSentry(d.ev.level)
         IN  /\ Qualifies(d.ev)
             /\ CopiesIn([level |-> level, message |-> d.message,
                          via |-> "handle"], sentryEvents) = 1
             /\ HeldCount(d.message) =
                  IF \E j \in 1..Len(Accepted) : Accepted[j] = d.message
                  THEN 1 ELSE 0
             /\ \A j \in 1..Len(logBuffer.records) :
                  TextId(logBuffer.records[j]["message"]) = d.message =>
                      logBuffer.records[j]["level"] = sentryLevelToString(level)
    /\ \A m \in 1..(nextMsg - 1) : HeldCount(m) <= 1

=============================================================================
